---- MODULE Spec2Model ----
(***************************************************************************)
(* Model of streamlit_app.py: load_data, process_data, plot_data and the   *)
(* part of main that chains them.                                          *)
(*                                                                         *)
(* Representation.                                                         *)
(*  - A JSON value is a record [k, n, s]: k is its Python type after       *)
(*    json.load ("absent" stands for a key the record does not hold),      *)
(*    n its number, s its text as a tuple of characters.                   *)
(*  - Every number is held in tenths (12.5 is 125, 3 is 30), so that       *)
(*    float("12.5") has an exact integer image.                            *)
(*  - The text of a timestamp is the tuple <<Y, m, d, H, M, S, f>> of the  *)
(*    fields it spells, -1 for a part the text does not have; <<>> is "".  *)
(*  - A month string "YYYY-MM" is the pair <<Y, m>>.                       *)
(***************************************************************************)
EXTENDS Integers, Sequences, FiniteSets, TLC

VARIABLES
    phase,          \* position of main / process_data
    file,           \* what the uploaded byte stream holds
    data,           \* load_data's return value (top-level shape), "None", or "unset"
    seen,           \* keys of data already yielded by data.items()
    user_email,     \* loop variable of process_data, line 50
    record,         \* loop variable of process_data, line 55
    consumed,       \* number of groups and records read so far
    processed_data, \* the list of rows, then the DataFrame built from it
    errors,         \* st.error calls, in order
    warnings,       \* st.warning calls
    fault,          \* exception that left main unhandled, or "none"
    months,         \* options of the month selectbox
    month,          \* the selected month
    tables          \* what the last plot_data call rendered

vars == <<phase, file, data, seen, user_email, record, consumed, processed_data,
          errors, warnings, fault, months, month, tables>>

---------------------------------------------------------------------------
(* Bounds *)

\* groups plus records read from one file
MaxElems == 2

\* rows of a collection handed directly to plot_data
MaxRows == 12

\* head(10)
TopN == 10

---------------------------------------------------------------------------
(* JSON values *)

V(kind, num, str) == [k |-> kind, n |-> num, s |-> str]

Absent == V("absent", 0, <<>>)

Null == V("null", 0, <<>>)

JList == V("list", 0, <<>>)

Num(x) == V("num", x, <<>>)

Str(chars) == V("str", 0, chars)

\* record.get(key, default)
Get(rec, key, default) == IF rec[key].k = "absent" THEN default ELSE rec[key]

---------------------------------------------------------------------------
(* datetime.strptime / strftime *)

IsLeap(y) == (y % 4 = 0 /\ y % 100 # 0) \/ y % 400 = 0

DaysInMonth(y, m) ==
    IF m \in {4, 6, 9, 11} THEN 30
    ELSE IF m = 2 THEN (IF IsLeap(y) THEN 29 ELSE 28)
    ELSE 31

\* the two formats of line 67: with and without ".%f"
Formats == <<"%Y-%m-%dT%H:%M:%S.%f", "%Y-%m-%dT%H:%M:%S">>

\* TRUE iff strptime(text, fmt) returns a datetime (FALSE: ValueError)
Strptime(text, fmt) ==
    /\ Len(text) = 7
    /\ text[1] \in 1..9999
    /\ text[2] \in 1..12
    /\ text[3] \in 1..DaysInMonth(text[1], text[2])
    /\ text[4] \in 0..23
    /\ text[5] \in 0..59
    /\ text[6] \in 0..61
    /\ IF fmt = Formats[1] THEN text[7] \in 0..999999 ELSE text[7] = -1

\* lines 66-72: first format that parses wins; FALSE when none does
ParseTimestamp(text) == \E i \in 1..Len(Formats) : Strptime(text, Formats[i])

\* timestamp.strftime("%Y-%m")
Strftime(text) == <<text[1], text[2]>>

---------------------------------------------------------------------------
(* float(str) *)

Digits == <<"0", "1", "2", "3", "4", "5", "6", "7", "8", "9">>

IsDigit(c) == \E i \in 1..Len(Digits) : Digits[i] = c

DigitVal(c) == (CHOOSE i \in 1..Len(Digits) : Digits[i] = c) - 1

RECURSIVE IntOf(_)
IntOf(chars) ==
    IF chars = <<>> THEN 0
    ELSE 10 * IntOf(SubSeq(chars, 1, Len(chars) - 1)) + DigitVal(chars[Len(chars)])

\* unsigned decimal: digits, optionally a point and more digits
UnsignedOk(chars) ==
    LET dots == {i \in 1..Len(chars) : chars[i] = "."} IN
    /\ Cardinality(dots) <= 1
    /\ \A i \in 1..Len(chars) : IsDigit(chars[i]) \/ chars[i] = "."
    /\ \E i \in 1..Len(chars) : IsDigit(chars[i])

\* value in tenths (texts carry at most one fractional digit)
UnsignedVal(chars) ==
    LET dots == {i \in 1..Len(chars) : chars[i] = "."} IN
    IF dots = {} THEN 10 * IntOf(chars)
    ELSE LET p == CHOOSE i \in dots : TRUE
             frac == SubSeq(chars, p + 1, Len(chars))
         IN 10 * IntOf(SubSeq(chars, 1, p - 1))
            + (IF frac = <<>> THEN 0 ELSE DigitVal(frac[1]))

Unsigned(chars) == IF chars # <<>> /\ chars[1] = "-" THEN Tail(chars) ELSE chars

\* TRUE iff float(chars) returns (FALSE: ValueError)
FloatOk(chars) == UnsignedOk(Unsigned(chars))

FloatVal(chars) ==
    IF chars # <<>> /\ chars[1] = "-" THEN 0 - UnsignedVal(Tail(chars))
    ELSE UnsignedVal(chars)

---------------------------------------------------------------------------
(* process_data: the body of the record loop, lines 56-98 *)

NoRow == [month |-> <<0, 0>>, model |-> Absent, total_cost |-> 0,
          user |-> <<>>, total_tokens |-> Absent]

UnknownModel == Str(<<"U", "n", "k">>)

\* mutant: a text that float() rejects counts as 0.0
CoerceCostLenient(cost) ==
    IF cost.k = "num" THEN [ok |-> TRUE, n |-> cost.n]
    ELSE IF cost.k = "str" /\ FloatOk(cost.s) THEN [ok |-> TRUE, n |-> FloatVal(cost.s)]
    ELSE [ok |-> TRUE, n |-> 0]

\* line 83: float(cost) if isinstance(cost, (int, float, str)) else 0.0
\* ok = FALSE is the ValueError of line 84
CoerceCost(cost) ==
    IF cost.k = "num" THEN [ok |-> TRUE, n |-> cost.n]
    ELSE IF cost.k = "str" THEN
        (IF FloatOk(cost.s) THEN [ok |-> TRUE, n |-> FloatVal(cost.s)]
         ELSE [ok |-> FALSE, n |-> 0])
    ELSE [ok |-> TRUE, n |-> 0]

\* Python's a + b on the types JSON yields; ok = FALSE is TypeError
Plus(a, b) ==
    IF a.k = "num" /\ b.k = "num" THEN [ok |-> TRUE, v |-> Num(a.n + b.n)]
    ELSE IF a.k = "str" /\ b.k = "str" THEN [ok |-> TRUE, v |-> Str(a.s \o b.s)]
    ELSE IF a.k = "list" /\ b.k = "list" THEN [ok |-> TRUE, v |-> JList]
    ELSE [ok |-> FALSE, v |-> Absent]

Skip(diag) == [outcome |-> "skip", diag |-> diag, row |-> NoRow]

\* mutant: a timestamp that does not parse keeps its row, under a
\* placeholder month
LoopBodyPlaceholder(rec, email) ==
    IF rec.type # "dict" THEN Skip("Invalid record format")
    ELSE
    LET timestamp_str == rec.timestamp
        parsed == timestamp_str.k = "str" /\ ParseTimestamp(timestamp_str.s)
        model == Get(rec, "model", UnknownModel)
        cost  == CoerceCost(Get(rec, "total_cost", Str(<<"0">>)))
        total == Plus(Get(rec, "input_tokens", Num(0)), Get(rec, "output_tokens", Num(0)))
    IN
    IF timestamp_str.k # "str" \/ timestamp_str.s = <<>>
    THEN Skip("Missing or invalid timestamp")
    ELSE IF ~cost.ok THEN Skip("Invalid cost value")
    ELSE IF ~total.ok THEN [outcome |-> "raise", diag |-> "TypeError", row |-> NoRow]
    ELSE [outcome |-> "row", diag |-> "",
          row |-> [month |-> IF parsed THEN Strftime(timestamp_str.s) ELSE <<0, 0>>,
                   model |-> model, total_cost |-> cost.n, user |-> email,
                   total_tokens |-> total.v]]

\* One pass of the loop body for `rec` under key `email`: a row appended
\* ("row"), one st.error and continue ("skip"), or an exception ("raise").
LoopBody(rec, email) ==
    IF rec.type # "dict" THEN Skip("Invalid record format")
    ELSE
    LET timestamp_str == rec.timestamp IN
    IF timestamp_str.k # "str" \/ timestamp_str.s = <<>>
    THEN Skip("Missing or invalid timestamp")
    ELSE IF ~ParseTimestamp(timestamp_str.s) THEN Skip("Invalid timestamp format")
    ELSE
    LET model == Get(rec, "model", UnknownModel)
        cost  == CoerceCost(Get(rec, "total_cost", Str(<<"0">>)))
        total == Plus(Get(rec, "input_tokens", Num(0)), Get(rec, "output_tokens", Num(0)))
    IN
    IF ~cost.ok THEN Skip("Invalid cost value")
    ELSE IF ~total.ok THEN [outcome |-> "raise", diag |-> "TypeError", row |-> NoRow]
    ELSE [outcome |-> "row", diag |-> "",
          row |-> [month |-> Strftime(timestamp_str.s), model |-> model,
                   total_cost |-> cost.n, user |-> email, total_tokens |-> total.v]]

---------------------------------------------------------------------------
(* Inputs *)

\* keys of the top-level mapping
Users == {<<"a", "l">>, <<"T", "o", "t", "a", "l">>}

Rec(ts, model, cost, itok, otok, user) ==
    [type |-> "dict", timestamp |-> ts, model |-> model, total_cost |-> cost,
     input_tokens |-> itok, output_tokens |-> otok, user |-> user]

NotADict == [type |-> "other", timestamp |-> Absent, model |-> Absent,
             total_cost |-> Absent, input_tokens |-> Absent,
             output_tokens |-> Absent, user |-> Absent]

Gpt == Str(<<"g", "p", "t">>)

Llama == Str(<<"l", "l", "m">>)

Nov == Str(<<2024, 11, 1, 10, 0, 0, -1>>)

OctFrac == Str(<<2024, 10, 31, 23, 59, 59, 123456>>)

BaseRec == Rec(Nov, Gpt, Num(10), Num(30), Num(40), Absent)

\* BaseRec with one field replaced
With(key, val) == [BaseRec EXCEPT ![key] = val]

TimestampSamples ==
    { Absent, Num(17), Str(<<>>), OctFrac,
      Str(<<2024, 11, 1, -1, -1, -1, -1>>),      \* "2024-11-01"
      Str(<<2024, 13, 1, 10, 0, 0, -1>>),        \* month 13
      Str(<<2023, 2, 29, 10, 0, 0, 5>>) }        \* 29 February 2023

CostSamples ==
    { Absent, Num(50), Str(<<"1", "2", ".", "5">>), Str(<<"a", "b", "c">>),
      Str(<<"1", ".", "2", ".", "3">>), Null, JList }

TokenSamples == { Absent, Str(<<"x">>), Null }

Records ==
    {BaseRec, NotADict}
    \cup {With("timestamp", t) : t \in TimestampSamples}
    \cup {With("model", m) : m \in {Absent, Llama}}
    \cup {With("total_cost", c) : c \in CostSamples}
    \cup {With("input_tokens", t) : t \in TokenSamples}
    \cup {[With("input_tokens", Absent) EXCEPT !.output_tokens = Absent]}
    \cup {With("user", Str(<<"b", "o", "b">>))}

Files == {"undecodable", "empty", "malformed", "null", "number", "array", "object"}

---------------------------------------------------------------------------
(* pandas: groupby(key)[col].sum().reset_index(), sort_values, head *)

\* characters in ASCII order
Alphabet == <<"0", "1", "2", "3", "4", "5", "6", "7", "8", "9",
              "T", "U", "a", "b", "g", "k", "l", "m", "n", "o", "p", "t">>

Ord(c) == CHOOSE i \in 1..Len(Alphabet) : Alphabet[i] = c

\* Python's a < b on str
RECURSIVE StrLess(_, _)
StrLess(a, b) ==
    IF b = <<>> THEN FALSE
    ELSE IF a = <<>> THEN TRUE
    ELSE IF a[1] # b[1] THEN Ord(a[1]) < Ord(b[1])
    ELSE StrLess(Tail(a), Tail(b))

\* the elements of a set of strings in ascending order
RECURSIVE Ascending(_)
Ascending(S) ==
    IF S = {} THEN <<>>
    ELSE LET lo == CHOOSE x \in S : \A y \in S \ {x} : StrLess(x, y)
         IN <<lo>> \o Ascending(S \ {lo})

RECURSIVE SumSeq(_)
SumSeq(xs) == IF xs = <<>> THEN 0 ELSE xs[1] + SumSeq(Tail(xs))

\* row[col]: a model is compared by its text, a token count by its number
Cell(row, col) ==
    IF col = "model" THEN row.model.s
    ELSE IF col = "total_tokens" THEN row.total_tokens.n
    ELSE row[col]

\* rows[col].sum()
SumOf(rows, col) == SumSeq([i \in 1..Len(rows) |-> Cell(rows[i], col)])

SelectRows(rows, key, k) == SelectSeq(rows, LAMBDA r : Cell(r, key) = k)

\* groupby(key)[col].sum().reset_index(): one row per key, keys ascending
GroupBySum(rows, key, col) ==
    LET keys == Ascending({Cell(rows[i], key) : i \in 1..Len(rows)})
    IN [i \in 1..Len(keys) |->
            [key |-> keys[i], sum |-> SumOf(SelectRows(rows, key, keys[i]), col)]]

\* x placed after every element that is not smaller: equal sums keep their order
RECURSIVE InsertDesc(_, _)
InsertDesc(sorted, x) ==
    IF sorted = <<>> THEN <<x>>
    ELSE IF sorted[1].sum >= x.sum THEN <<sorted[1]>> \o InsertDesc(Tail(sorted), x)
    ELSE <<x>> \o sorted

\* sort_values(by=col, ascending=False)
RECURSIVE SortDescending(_)
SortDescending(t) ==
    IF t = <<>> THEN <<>>
    ELSE InsertDesc(SortDescending(SubSeq(t, 1, Len(t) - 1)), t[Len(t)])

\* mutant: no truncation
KeepAll(t, n) == t

\* head(n)
Head_(t, n) == SubSeq(t, 1, IF Len(t) < n THEN Len(t) ELSE n)

---------------------------------------------------------------------------
(* plot_data *)

TotalLabel == <<"T", "o", "t", "a", "l">>

NoTables == [tokens |-> <<>>, cost |-> <<>>, users |-> <<>>]

\* lines 125-130
month_data_models_tokens(month_data) ==
    Head_(SortDescending(GroupBySum(month_data, "model", "total_tokens")), TopN)

\* lines 142-147
month_data_models_cost(month_data) ==
    Head_(SortDescending(GroupBySum(month_data, "model", "total_cost")), TopN)

\* mutant: the Total row repeats the first user's cost
month_data_users_first(month_data) ==
    LET by_user == SortDescending(GroupBySum(month_data, "user", "total_cost"))
    IN by_user \o <<[key |-> TotalLabel, sum |-> by_user[1].sum]>>

\* lines 159-169: the "total" column holds the column sum on every row and
\* its first cell becomes the cost of the appended "Total" row
month_data_users(month_data) ==
    LET by_user == SortDescending(GroupBySum(month_data, "user", "total_cost"))
        total == SumSeq([i \in 1..Len(by_user) |-> by_user[i].sum])
    IN by_user \o <<[key |-> TotalLabel, sum |-> total]>>

\* data[data["month"] == month]
MonthData(rows, m) == SelectSeq(rows, LAMBDA r : r.month = m)

\* plot_data(data, month); a DataFrame built from no rows has no "month"
\* column, so line 116 raises KeyError
plot_data(rows, m) ==
    IF rows = <<>>
    THEN [fault |-> "KeyError", errors |-> <<>>, drawn |-> FALSE, tables |-> NoTables]
    ELSE LET month_data == MonthData(rows, m) IN
         IF month_data = <<>>
         THEN [fault |-> "none", errors |-> <<"No data available">>,
               drawn |-> FALSE, tables |-> NoTables]
         ELSE [fault |-> "none", errors |-> <<>>, drawn |-> TRUE,
               tables |-> [tokens |-> month_data_models_tokens(month_data),
                           cost   |-> month_data_models_cost(month_data),
                           users  |-> month_data_users(month_data)]]

\* processed_data["month"].unique(): distinct values in order of appearance
RECURSIVE Unique(_)
Unique(ms) ==
    IF ms = <<>> THEN <<>>
    ELSE LET rest == Unique(SubSeq(ms, 1, Len(ms) - 1)) IN
         IF \E i \in 1..Len(rest) : rest[i] = ms[Len(ms)] THEN rest
         ELSE Append(rest, ms[Len(ms)])

---------------------------------------------------------------------------
(* State machine of one session *)

NoRecord == [NotADict EXCEPT !.type = "none"]

NoMonth == <<0, 0>>

Init ==
    /\ phase = "idle"
    /\ file = "none"
    /\ data = "unset"
    /\ seen = {}
    /\ user_email = <<>>
    /\ record = NoRecord
    /\ consumed = 0
    /\ processed_data = <<>>
    /\ errors = <<>>
    /\ warnings = 0
    /\ fault = "none"
    /\ months = <<>>
    /\ month = NoMonth
    /\ tables = NoTables

\* line 206: a file is uploaded and the script runs from the top
Upload(f) ==
    /\ phase \in {"idle", "done", "ready", "plotted", "fault"}
    /\ phase' = "uploaded"
    /\ file' = f
    /\ data' = "unset"
    /\ seen' = {}
    /\ user_email' = <<>>
    /\ record' = NoRecord
    /\ consumed' = 0
    /\ processed_data' = <<>>
    /\ errors' = <<>>
    /\ warnings' = 0
    /\ fault' = "none"
    /\ months' = <<>>
    /\ month' = NoMonth
    /\ tables' = NoTables

\* lines 31-36 and 208-210. json.load decodes the bytes before it parses
\* them: UnicodeDecodeError is not a JSONDecodeError and is not caught.
load_data ==
    /\ phase = "uploaded"
    /\ IF file = "undecodable"
       THEN /\ fault' = "UnicodeDecodeError"
            /\ phase' = "fault"
            /\ UNCHANGED <<data, errors>>
       ELSE IF file \in {"empty", "malformed"}
       THEN /\ errors' = Append(errors, "Invalid JSON file")
            /\ data' = "None"
            /\ phase' = "done"
            /\ UNCHANGED fault
       ELSE /\ data' = IF file = "null" THEN "None" ELSE file
            /\ phase' = IF file = "null" THEN "done" ELSE "loaded"
            /\ UNCHANGED <<fault, errors>>
    /\ UNCHANGED <<file, seen, user_email, record, consumed, processed_data,
                   warnings, months, month, tables>>

\* lines 48-50: data.items() exists on a dict only
process_data_begin ==
    /\ phase = "loaded"
    /\ IF data = "object"
       THEN phase' = "items" /\ UNCHANGED fault
       ELSE phase' = "fault" /\ fault' = "AttributeError"
    /\ UNCHANGED <<file, data, seen, user_email, record, consumed, processed_data,
                   errors, warnings, months, month, tables>>

\* lines 50-53: the next key of the mapping and whether its value is a list
NextGroup(email, isList) ==
    /\ phase = "items"
    /\ email \notin seen
    /\ seen' = seen \cup {email}
    /\ user_email' = email
    /\ IF isList
       THEN /\ phase' = "records"
            /\ UNCHANGED <<errors, consumed>>
       ELSE /\ consumed < MaxElems
            /\ consumed' = consumed + 1
            /\ errors' = Append(errors, "Invalid data format for user")
            /\ UNCHANGED phase
    /\ UNCHANGED <<file, data, record, processed_data, warnings, fault, months,
                   month, tables>>

\* lines 55-98: the next member of the current list
NextRecord(rec) ==
    /\ phase = "records"
    /\ consumed < MaxElems
    /\ consumed' = consumed + 1
    /\ record' = rec
    /\ LET r == LoopBody(rec, user_email) IN
       /\ processed_data' = IF r.outcome = "row" THEN Append(processed_data, r.row)
                            ELSE processed_data
       /\ errors' = IF r.outcome = "skip" THEN Append(errors, r.diag) ELSE errors
       /\ fault' = IF r.outcome = "raise" THEN r.diag ELSE fault
       /\ phase' = IF r.outcome = "raise" THEN "fault" ELSE phase
    /\ UNCHANGED <<file, data, seen, user_email, warnings, months, month, tables>>

\* line 55: the list is exhausted
EndGroup ==
    /\ phase = "records"
    /\ phase' = "items"
    /\ UNCHANGED <<file, data, seen, user_email, record, consumed, processed_data,
                   errors, warnings, fault, months, month, tables>>

\* lines 100-106: the mapping is exhausted, the DataFrame is built
process_data_end ==
    /\ phase = "items"
    /\ phase' = "processed"
    /\ warnings' = IF processed_data = <<>> THEN warnings + 1 ELSE warnings
    /\ UNCHANGED <<file, data, seen, user_email, record, consumed, processed_data,
                   errors, fault, months, month, tables>>

\* lines 212-213: a DataFrame built from no rows has no "month" column
main_months ==
    /\ phase = "processed"
    /\ IF processed_data = <<>>
       THEN /\ fault' = "KeyError"
            /\ phase' = "fault"
            /\ UNCHANGED <<months, month>>
       ELSE /\ months' = Unique([i \in 1..Len(processed_data) |-> processed_data[i].month])
            /\ month' = months'[1]
            /\ phase' = "ready"
            /\ UNCHANGED fault
    /\ UNCHANGED <<file, data, seen, user_email, record, consumed, processed_data,
                   errors, warnings, tables>>

\* line 213: the selectbox offers the months of the collection
SelectMonth(m) ==
    /\ phase \in {"ready", "plotted"}
    /\ \E i \in 1..Len(months) : months[i] = m
    /\ m # month
    /\ month' = m
    /\ tables' = NoTables
    /\ phase' = "ready"
    /\ UNCHANGED <<file, data, seen, user_email, record, consumed,
                   processed_data, errors, warnings, fault, months>>

\* the effect of one plot_data call on the page
Render(r) ==
    /\ tables' = r.tables
    /\ fault' = r.fault
    /\ phase' = IF r.fault # "none" THEN "fault" ELSE IF r.drawn THEN "plotted" ELSE "nodata"

\* lines 214-217: either button calls plot_data(processed_data, month)
Button ==
    /\ phase = "ready"
    /\ LET r == plot_data(processed_data, month) IN
       Render(r) /\ errors' = errors \o r.errors
    /\ UNCHANGED <<file, data, seen, user_email, record, consumed, processed_data,
                   warnings, months, month>>

Next ==
    \/ \E f \in Files : Upload(f)
    \/ load_data
    \/ process_data_begin
    \/ \E email \in Users, isList \in BOOLEAN : NextGroup(email, isList)
    \/ \E rec \in Records : NextRecord(rec)
    \/ EndGroup
    \/ process_data_end
    \/ main_months
    \/ \E m \in {<<2024, 10>>, <<2024, 11>>} : SelectMonth(m)
    \/ Button

Spec == Init /\ [][Next]_vars

---------------------------------------------------------------------------
(* plot_data called directly on a collection, for any month *)

November == <<2024, 11>>

October == <<2024, 10>>

QueryMonths == {October, November}

ModelName(i) == Str(<<"m", Digits[(i \div 10) + 1], Digits[(i % 10) + 1]>>)

\* Row i of a collection: one more model than head() keeps, then the first
\* models again; rows past the first round alternate the month.
PlotRow(i, tok) ==
    [month |-> IF i > TopN + 1 /\ i % 2 = 1 THEN October ELSE November,
     model |-> ModelName(((i - 1) % (TopN + 1)) + 1),
     total_cost |-> 10 * (i % 3),
     user |-> IF i % 2 = 0 THEN <<"a", "l">> ELSE TotalLabel,
     total_tokens |-> Num(10 * tok)]

\* a collection of n rows, row i with toks[i] tokens
Collection(n, toks) == [i \in 1..n |-> PlotRow(i, toks[i])]

InitPlot ==
    /\ \E n \in 0..MaxRows : \E toks \in [1..n -> {1, 2}] :
          processed_data = Collection(n, toks)
    /\ phase = "processed"
    /\ file = "none"
    /\ data = "object"
    /\ seen = {}
    /\ user_email = <<>>
    /\ record = NoRecord
    /\ consumed = 0
    /\ errors = <<>>
    /\ warnings = IF processed_data = <<>> THEN 1 ELSE 0
    /\ fault = "none"
    /\ months = <<>>
    /\ month = NoMonth
    /\ tables = NoTables

\* plot_data(processed_data, m); errors holds what this call reported
PlotCall(m) ==
    /\ phase \in {"processed", "plotted", "nodata"}
    /\ m # month
    /\ month' = m
    /\ LET r == plot_data(processed_data, m) IN
       Render(r) /\ errors' = r.errors
    /\ UNCHANGED <<file, data, seen, user_email, record, consumed, processed_data,
                   warnings, months>>

NextPlot == \E m \in QueryMonths : PlotCall(m)

SpecPlot == InitPlot /\ [][NextPlot]_vars

---------------------------------------------------------------------------
(* Claims *)

Last(seq) == seq[Len(seq)]

\* the step that runs the loop body on record'
RecordStep == phase = "records" /\ consumed' = consumed + 1

PassedTimestamp(rec) ==
    /\ rec.type = "dict"
    /\ rec.timestamp.k = "str"
    /\ rec.timestamp.s # <<>>
    /\ ParseTimestamp(rec.timestamp.s)

Appended == processed_data' # processed_data

\* C1: process_data never aborts mid-batch: while it walks a mapping of
\* groups no exception leaves it, whatever the records hold.
C1_NeverAbortsMidBatch == data = "object" => fault # "TypeError"

\* C2: a top-level array of records is accepted: process_data walks it and
\* raises nothing.
C2_FlatShapeAccepted == data = "array" => fault = "none"

\* the value line 83 is to give a total_cost that does not exclude the record
CostValue(c) ==
    IF c.k = "num" THEN c.n ELSE IF c.k = "str" THEN FloatVal(c.s) ELSE 0

\* the cost step lets the record through: no diagnostic, and the row it
\* yields carries `value` (no row comes only when the token sum raises)
CostKept(value) ==
    /\ errors' = errors
    /\ Appended \/ fault' = "TypeError"
    /\ Appended =>
         /\ processed_data' = Append(processed_data, Last(processed_data'))
         /\ Last(processed_data').total_cost = value

\* the cost step excludes the record with its one diagnostic
CostExcluded ==
    /\ processed_data' = processed_data
    /\ errors' = Append(errors, "Invalid cost value")
    /\ fault' = "none"

Tok0(v) == IF v.k = "num" THEN v.n ELSE 0

\* C4: every record that passed the timestamp and cost steps yields a row
\* whose total_tokens is input_tokens + output_tokens, a count that is absent
\* or not a number taken as 0.
C4_TokensDefaultToZero ==
    [][(RecordStep /\ PassedTimestamp(record')
        /\ CoerceCost(Get(record', "total_cost", Str(<<"0">>))).ok) =>
        /\ Len(processed_data') = Len(processed_data) + 1
        /\ Last(processed_data').total_tokens =
              Num(Tok0(record'.input_tokens) + Tok0(record'.output_tokens))]_vars

\* C5: once the empty-result warning has been reported the run completes with
\* no unhandled fault.
C5_EmptyResultCompletes == warnings > 0 => fault = "none"

\* C6: a byte stream that is not a JSON document makes load_data report the
\* parse failure once and return None without raising; main stops there.
C6_ParseFailureReported ==
    (file \in {"undecodable", "empty", "malformed"} /\ phase # "uploaded") =>
        /\ fault = "none"
        /\ errors = <<"Invalid JSON file">>
        /\ data = "None"
        /\ phase = "done"

---------------------------------------------------------------------------
(* Claims about the tables *)

\* the rows of the queried month
Matching == SelectSeq(processed_data, LAMBDA r : r.month = month)

KeysOf(rows, key) == {Cell(rows[i], key) : i \in 1..Len(rows)}

\* sum of column Col over the rows whose key is k, row by row
RECURSIVE Total(_)
Total(pairs) ==
    IF pairs = {} THEN 0
    ELSE LET q == CHOOSE x \in pairs : TRUE IN q[2] + Total(pairs \ {q})

GroupTotal(rows, key, col, k) ==
    Total({<<i, Cell(rows[i], col)>> : i \in {j \in 1..Len(rows) : Cell(rows[j], key) = k}})

Descending(t) == \A i \in 1..Len(t) - 1 : t[i].sum >= t[i + 1].sum

StrictlyDescending(t) == \A i \in 1..Len(t) - 1 : t[i].sum > t[i + 1].sum

\* C7: for a month with rows, the user-cost table holds one row per distinct
\* user with that user's summed total_cost, in descending order, followed by
\* exactly one appended row "Total" holding the sum over all rows of the
\* month, also when a user is named "Total".
C7_UserCostTable ==
    phase = "plotted" =>
        LET t == tables.users
            n == Len(t) - 1
            users == KeysOf(Matching, "user")
        IN /\ n = Cardinality(users)
           /\ {t[i].key : i \in 1..n} = users
           /\ \A i \in 1..n : t[i].sum = GroupTotal(Matching, "user", "total_cost", t[i].key)
           /\ Descending(SubSeq(t, 1, n))
           /\ t[n + 1].key = TotalLabel
           /\ t[n + 1].sum =
                 Total({<<i, Matching[i].total_cost>> : i \in 1..Len(Matching)})

\* two users with different costs, one of them named "Total"
C7_Witness ==
    /\ phase = "plotted"
    /\ Len(tables.users) = 3
    /\ tables.users[2].key = TotalLabel
    /\ tables.users[1].sum > tables.users[2].sum
    /\ tables.users[2].sum > 0

\* a ranking holds at most TopN groups, each a model of the month with its
\* sum, and no model left out has a larger sum than one it holds
TopRanking(t, col) ==
    LET models == KeysOf(Matching, "model") IN
    /\ Len(t) <= TopN
    /\ Len(t) = (IF Cardinality(models) < TopN THEN Cardinality(models) ELSE TopN)
    /\ \A i \in 1..Len(t) :
          /\ t[i].key \in models
          /\ t[i].sum = GroupTotal(Matching, "model", col, t[i].key)
          /\ \A j \in 1..Len(t) : t[j].key = t[i].key => j = i
    /\ \A k \in models \ {t[i].key : i \in 1..Len(t)} :
          \A i \in 1..Len(t) : GroupTotal(Matching, "model", col, k) <= t[i].sum

\* C8 as stated: both rankings hold at most 10 groups, the 10 largest sums,
\* sorted strictly descending.
C8_Original ==
    phase = "plotted" =>
        /\ TopRanking(tables.tokens, "total_tokens") /\ StrictlyDescending(tables.tokens)
        /\ TopRanking(tables.cost, "total_cost") /\ StrictlyDescending(tables.cost)

\* C8 amended: both rankings hold at most 10 groups, the 10 largest sums,
\* sorted descending; models with equal sums stand next to each other.
C8_Rankings ==
    phase = "plotted" =>
        /\ TopRanking(tables.tokens, "total_tokens") /\ Descending(tables.tokens)
        /\ TopRanking(tables.cost, "total_cost") /\ Descending(tables.cost)

\* more than TopN models in the month, and a ranking cut to TopN
C8_Witness ==
    /\ phase = "plotted"
    /\ Cardinality(KeysOf(Matching, "model")) > TopN
    /\ Len(tables.tokens) = TopN
    /\ Len(tables.cost) = TopN
    /\ tables.tokens[1].sum > tables.tokens[TopN].sum

\* C9: a query for a month that matches no row reports "No data available",
\* renders no table and raises nothing.
C9_NoDataForMonth ==
    (phase # "processed" /\ Matching = <<>>) =>
        /\ fault = "none"
        /\ errors = <<"No data available">>
        /\ tables = NoTables

\* C10: a record whose timestamp is absent, not a string, or in neither
\* format adds no row and exactly one diagnostic; a row is appended only for
\* a timestamp that parsed, with the year and month it spells, so no row of
\* the collection carries a placeholder month.
C10_TimestampRejected ==
    [][/\ (RecordStep /\ record'.type = "dict" /\ ~PassedTimestamp(record')) =>
            /\ processed_data' = processed_data
            /\ Len(errors') = Len(errors) + 1
            /\ Last(errors') \in {"Missing or invalid timestamp", "Invalid timestamp format"}
            /\ fault' = "none"
       /\ (RecordStep /\ Appended) =>
            /\ PassedTimestamp(record')
            /\ Last(processed_data').month =
                  <<record'.timestamp.s[1], record'.timestamp.s[2]>>
       /\ \A i \in 1..Len(processed_data') :
            /\ processed_data'[i].month[1] \in 1..9999
            /\ processed_data'[i].month[2] \in 1..12]_vars

\* a record without timestamp was skipped after a record that gave a row
C10_Witness ==
    /\ consumed = 2
    /\ record.type = "dict"
    /\ record.timestamp = Absent
    /\ Len(processed_data) = 1
    /\ errors = <<"Missing or invalid timestamp">>

====
